---- MODULE Spec2Model ----
(***************************************************************************)
(* Model of scripts/electron-builder-wrapper.js (the wrapper that plans    *)
(* the build passes and runs electron-builder once per pass) and of        *)
(* scripts/afterSign.js (the post-sign hook that notarizes the dmg build). *)
(* JavaScript strings are TLA+ strings; `undefined` is the value UNDEF.    *)
(***************************************************************************)
EXTENDS Integers, Sequences, FiniteSets, TLC

(* ------------------------------ bounds --------------------------------- *)
MaxArgs == 2
MaxStatus == 1
MaxTargets == 2

(* ------------------------- JavaScript helpers -------------------------- *)
UNDEF == "<undefined>"

\* the booleans of doPackage/doSign, which may also be UNDEF
JsTrue == "true"
JsFalse == "false"
\* null of result.status (a number otherwise)
NullStatus == -1

\* JavaScript truthiness of a string-or-undefined value
Truthy(v) == v # UNDEF /\ v # ""
\* JavaScript truthiness of a boolean-or-undefined value
TruthyFlag(v) == v = JsTrue
\* JavaScript truthiness of a number-or-null value
TruthyNum(n) == n # NullStatus /\ n # 0

\* obj[key] of an object modelled as a function: undefined when the key is missing
Get(obj, key) == IF key \in DOMAIN obj THEN obj[key] ELSE UNDEF

\* s.indexOf(p) === 0
StartsWith(s, p) == Len(s) >= Len(p) /\ SubSeq(s, 1, Len(p)) = p

RECURSIVE Join(_, _)
\* Array.prototype.join
Join(strs, sep) ==
    IF Len(strs) = 0 THEN ""
    ELSE IF Len(strs) = 1 THEN strs[1]
    ELSE strs[1] \o sep \o Join(Tail(strs), sep)

\* membership of a value in an array
Includes(arr, v) == \E i \in DOMAIN arr : arr[i] = v

(* ------------------- electron-builder-wrapper.js ----------------------- *)
CSCKeys == {"CSC_LINK", "CSC_KEY_PASSWORD", "WIN_CSC_LINK", "WIN_CSC_KEY_PASSWORD"}

\* stripCSC with WIN_CSC_KEY_PASSWORD missing from the destructuring pattern
stripCSC_keepingWinPassword(environment) ==
    [k \in (DOMAIN environment) \ {"CSC_LINK", "CSC_KEY_PASSWORD", "WIN_CSC_LINK"} |->
        environment[k]]

\* the rest-destructuring copy: every key but the four named ones
stripCSC(environment) ==
    [k \in (DOMAIN environment) \ CSCKeys |-> environment[k]]

getPlatformFlag(plat) ==
    CASE plat = "win32" -> [threw |-> FALSE, value |-> "--windows"]
      [] plat = "darwin" -> [threw |-> FALSE, value |-> "--macos"]
      [] plat = "linux" -> [threw |-> FALSE, value |-> "--linux"]
      [] OTHER -> [threw |-> TRUE, value |-> "UnsupportedPlatform"]

\* isTargetOfType without the test for the `${targetType}:` prefix
isTargetOfType_exactOnly(targetName, targetType) ==
    targetName = targetType

isTargetOfType(targetName, targetType) ==
    \/ targetName = targetType
    \/ StartsWith(targetName, targetType \o ":")

shouldStripCSC(wrapperConfig, target) ==
    isTargetOfType(target.name, "appx") \/ ~TruthyFlag(wrapperConfig.doSign)

childEnvironment(wrapperConfig, target, processEnv) ==
    IF shouldStripCSC(wrapperConfig, target) THEN stripCSC(processEnv) ELSE processEnv

\* the condition of the `throw new Error('Signing NSIS build requires ...')`
missingSigningCredentials(wrapperConfig, target, childEnv) ==
    /\ TruthyFlag(wrapperConfig.doSign)
    /\ isTargetOfType(target.name, "nsis")
    /\ ~(Truthy(Get(childEnv, "CSC_LINK")) \/ Truthy(Get(childEnv, "WIN_CSC_LINK")))

AfterSignFlag == "--c.afterSign=scripts/afterSign.js"
NullIdentityFlag == "--c.mac.identity=null"

\* ownArgs that pushes the afterSign flag whether or not doSign is set
ownArgs_alwaysAfterSign(wrapperConfig, target, platformFlag) ==
    <<platformFlag, target.name>>
    \o (IF target.platform = "darwin"
        THEN <<"--c.mac.type=" \o
                 (IF wrapperConfig.mode = "dist" THEN "distribution" ELSE "development")>>
             \o (IF isTargetOfType(target.name, "mas-dev")
                 THEN <<"--c.mac.provisioningProfile=mas-dev.provisionprofile">>
                 ELSE <<>>)
             \o <<AfterSignFlag>>
        ELSE <<>>)
    \o (IF ~TruthyFlag(wrapperConfig.doPackage)
        THEN <<"--dir", "--c.compression=store">>
        ELSE <<>>)

\* the arguments runBuilder pushes itself, before the passthrough arguments
ownArgs(wrapperConfig, target, platformFlag) ==
    <<platformFlag, target.name>>
    \o (IF target.platform = "darwin"
        THEN <<"--c.mac.type=" \o
                 (IF wrapperConfig.mode = "dist" THEN "distribution" ELSE "development")>>
             \o (IF isTargetOfType(target.name, "mas-dev")
                 THEN <<"--c.mac.provisioningProfile=mas-dev.provisionprofile">>
                 ELSE <<>>)
             \o (IF TruthyFlag(wrapperConfig.doSign)
                 THEN <<AfterSignFlag>>
                 ELSE <<NullIdentityFlag>>)
        ELSE <<>>)
    \o (IF ~TruthyFlag(wrapperConfig.doPackage)
        THEN <<"--dir", "--c.compression=store">>
        ELSE <<>>)

allArgs(wrapperConfig, target, platformFlag) ==
    ownArgs(wrapperConfig, target, platformFlag) \o wrapperConfig.builderArgs

\* resultError without the check of result.signal
resultError_noSignalCheck(result) ==
    IF result.error # UNDEF THEN "ChildProcessStartFailure"
    ELSE IF TruthyNum(result.status) THEN "ChildNonZeroExit"
    ELSE "none"

\* resultError without the check of result.status
resultError_noStatusCheck(result) ==
    IF result.error # UNDEF THEN "ChildProcessStartFailure"
    ELSE IF result.signal # UNDEF THEN "ChildTerminatedBySignal"
    ELSE "none"

\* the three checks on the result of spawnSync, in the order of the code
resultError(result) ==
    IF result.error # UNDEF THEN "ChildProcessStartFailure"
    ELSE IF result.signal # UNDEF THEN "ChildTerminatedBySignal"
    ELSE IF TruthyNum(result.status) THEN "ChildNonZeroExit"
    ELSE "none"

\* addPlatformTarget with unshift in place of push
addPlatformTarget_prepending(targets, newPlatform, newTarget, newArchitectures) ==
    <<[platform |-> newPlatform,
       name |-> Join([i \in DOMAIN newArchitectures |->
                         newTarget \o ":" \o newArchitectures[i]], " ")]>>
    \o targets

addPlatformTarget(targets, newPlatform, newTarget, newArchitectures) ==
    Append(targets,
           [platform |-> newPlatform,
            name |-> Join([i \in DOMAIN newArchitectures |->
                              newTarget \o ":" \o newArchitectures[i]], " ")])

\* calculateTargets whose default case breaks instead of throwing
calculateTargets_silentDefault(plat, wrapperConfig, masDevProfileExists) ==
    CASE plat = "win32" ->
           [threw |-> FALSE,
            targets |-> <<[platform |-> "win32", name |-> "appx:x64 appx:ia32 appx:arm64"],
                          [platform |-> "win32", name |-> "nsis:ia32"]>>]
      [] plat = "darwin" ->
           [threw |-> FALSE,
            targets |-> (IF masDevProfileExists
                         THEN <<[platform |-> "darwin", name |-> "mas-dev:x64 mas-dev:arm64"]>>
                         ELSE <<>>)
                        \o (IF TruthyFlag(wrapperConfig.doSign)
                            THEN <<[platform |-> "darwin", name |-> "mas:x64 mas:arm64"]>>
                            ELSE <<>>)
                        \o <<[platform |-> "darwin", name |-> "dmg:x64 dmg:arm64"]>>]
      [] OTHER -> [threw |-> FALSE, targets |-> <<>>]

calculateTargets(plat, wrapperConfig, masDevProfileExists) ==
    CASE plat = "win32" ->
           [threw |-> FALSE,
            targets |-> addPlatformTarget(
                          addPlatformTarget(<<>>, "win32", "appx", <<"x64", "ia32", "arm64">>),
                          "win32", "nsis", <<"ia32">>)]
      [] plat = "darwin" ->
           LET t1 == IF masDevProfileExists
                     THEN addPlatformTarget(<<>>, "darwin", "mas-dev", <<"x64", "arm64">>)
                     ELSE <<>>
               t2 == IF TruthyFlag(wrapperConfig.doSign)
                     THEN addPlatformTarget(t1, "darwin", "mas", <<"x64", "arm64">>)
                     ELSE t1
           IN [threw |-> FALSE,
               targets |-> addPlatformTarget(t2, "darwin", "dmg", <<"x64", "arm64">>)]
      [] OTHER -> [threw |-> TRUE, targets |-> <<>>]

(* parseArgs: arg.split(/--mode(\s+|=)/) *)
IsSpace(c) == c \in {" ", "\t", "\n"}

RECURSIVE SpaceRun(_, _)
\* number of consecutive whitespace characters of s starting at position i
SpaceRun(s, i) ==
    IF i <= Len(s) /\ IsSpace(SubSeq(s, i, i)) THEN 1 + SpaceRun(s, i + 1) ELSE 0

\* length of the separator (\s+|=) of a match of the pattern at position i; 0: no match
SepLenAt(s, i) ==
    IF i + 5 <= Len(s) /\ SubSeq(s, i, i + 5) = "--mode"
    THEN IF SpaceRun(s, i + 6) > 0 THEN SpaceRun(s, i + 6)
         ELSE IF i + 6 <= Len(s) /\ SubSeq(s, i + 6, i + 6) = "=" THEN 1
         ELSE 0
    ELSE 0

RECURSIVE SplitFrom(_, _, _)
\* String.prototype.split with a one-group pattern: pieces interleaved with captures
SplitFrom(s, i, start) ==
    IF i > Len(s) THEN <<SubSeq(s, start, Len(s))>>
    ELSE LET n == SepLenAt(s, i)
         IN IF n > 0
            THEN <<SubSeq(s, start, i - 1), SubSeq(s, i + 6, i + 5 + n)>>
                 \o SplitFrom(s, i + 6 + n, i + 6 + n)
            ELSE SplitFrom(s, i + 1, start)

modeSplit(arg) == SplitFrom(arg, 1, 1)

RECURSIVE scanArgs(_, _, _)
\* the `for (const arg of scriptArgs)` loop: the last --mode wins, the rest pass through
scanArgs(scriptArgs, mode, builderArgs) ==
    IF scriptArgs = <<>> THEN [mode |-> mode, builderArgs |-> builderArgs]
    ELSE LET parts == modeSplit(Head(scriptArgs))
         IN IF Len(parts) = 3
            THEN scanArgs(Tail(scriptArgs), parts[3], builderArgs)
            ELSE scanArgs(Tail(scriptArgs), mode, Append(builderArgs, Head(scriptArgs)))

\* parseArgs whose switch sends an unmatched mode into the 'dist' case
parseArgs_defaultIsDist(scriptArgs) ==
    LET scanned == scanArgs(scriptArgs, "dev", <<>>)
        mode == scanned.mode
    IN [builderArgs |-> scanned.builderArgs,
        doPackage |-> IF mode = "dir" THEN JsFalse ELSE JsTrue,
        doSign |-> IF mode \in {"dev", "dir"} THEN JsFalse ELSE JsTrue,
        mode |-> mode]

parseArgs(scriptArgs) ==
    LET scanned == scanArgs(scriptArgs, "dev", <<>>)
        mode == scanned.mode
    IN [builderArgs |-> scanned.builderArgs,
        doPackage |-> CASE mode = "dev" -> JsTrue
                        [] mode = "dir" -> JsFalse
                        [] mode = "dist" -> JsTrue
                        [] OTHER -> UNDEF,
        doSign |-> CASE mode = "dev" -> JsFalse
                     [] mode = "dir" -> JsFalse
                     [] mode = "dist" -> JsTrue
                     [] OTHER -> UNDEF,
        mode |-> mode]

(* --------------------------- wrapper: state ---------------------------- *)
VARIABLES
    platform,       \* process.platform
    argv,           \* process.argv.slice(2)
    env,            \* process.env
    masDevProfile,  \* fs.existsSync('mas-dev.provisionprofile')
    pc,             \* position of main: "start", "loop", "waiting", "exited"
    wrapperConfig,  \* the object parseArgs returns, plus its targets field
    nextPass,       \* index of the pass the for-of loop of main handles next
    invocations,    \* the calls of spawnSync made so far, with their results
    thrown,         \* the kind of the uncaught error, or "none"
    exitCode,       \* exit code of the process, NoExit while it runs
    env0            \* history: process.env when the process started

VARIABLES
    n_env,          \* process.env of the packager process that calls the hook
    context,        \* the context electron-builder hands to afterSign
    n_pc,           \* position of afterSign: "idle", "awaiting", "returned", "rejected"
    remoteCalls,    \* the option objects passed to notarize() so far
    settled,        \* number of notarize() calls that have completed
    warnings        \* number of console.error calls made

wvars == <<platform, argv, env, masDevProfile, pc, wrapperConfig, nextPass,
           invocations, thrown, exitCode, env0>>
nvars == <<n_env, context, n_pc, remoteCalls, settled, warnings>>
vars == <<platform, argv, env, masDevProfile, pc, wrapperConfig, nextPass,
          invocations, thrown, exitCode, env0,
          n_env, context, n_pc, remoteCalls, settled, warnings>>

NoExit == -1

Platforms == {"win32", "darwin", "linux", "freebsd"}

ArgPool == {"--mode=dist", "--mode=dir", "--mode dev", "--mode=zip", "--x64", AfterSignFlag}

ArgLists == UNION {[1..n -> ArgPool] : n \in 0..MaxArgs}

\* an object with the keys of f whose value is not UNDEF
MkEnv(f) == [k \in {x \in DOMAIN f : f[x] # UNDEF} |-> f[k]]

EnvValues(k) ==
    CASE k = "CSC_LINK" -> {UNDEF, "", "cert.p12"}
      [] k = "CSC_KEY_PASSWORD" -> {UNDEF, "secret"}
      [] k = "WIN_CSC_LINK" -> {UNDEF, "win.p12"}
      [] k = "WIN_CSC_KEY_PASSWORD" -> {UNDEF, "winsecret"}
      [] OTHER -> {"/usr/bin"}

WrapperEnvs ==
    {MkEnv(f) : f \in {g \in [CSCKeys \cup {"PATH"} -> {UNDEF, "", "cert.p12", "secret",
                                                       "win.p12", "winsecret", "/usr/bin"}] :
                         \A k \in DOMAIN g : g[k] \in EnvValues(k)}}

\* what spawnSync can return: start failure, death by signal, or an exit status
SpawnResults ==
    {[error |-> "ENOENT", signal |-> UNDEF, status |-> NullStatus],
     [error |-> UNDEF, signal |-> "SIGTERM", status |-> NullStatus]}
    \cup {[error |-> UNDEF, signal |-> UNDEF, status |-> n] : n \in 0..MaxStatus}

Pending == [error |-> UNDEF, signal |-> UNDEF, status |-> NullStatus]

InitWrapper ==
    /\ platform \in Platforms
    /\ argv \in ArgLists
    /\ env \in WrapperEnvs
    /\ masDevProfile \in BOOLEAN
    /\ pc = "start"
    /\ wrapperConfig = [builderArgs |-> <<>>, doPackage |-> UNDEF, doSign |-> UNDEF,
                        mode |-> UNDEF, targets |-> <<>>]
    /\ nextPass = 1
    /\ invocations = <<>>
    /\ thrown = "none"
    /\ exitCode = NoExit
    /\ env0 = env

IdleNotarizer ==
    /\ n_env = [PATH |-> "/usr/bin"]
    /\ context = [targets |-> <<>>, appOutDir |-> "dist/mac", productFilename |-> "Scratch 3"]
    /\ n_pc = "idle"
    /\ remoteCalls = <<>>
    /\ settled = 0
    /\ warnings = 0

Init == InitWrapper /\ IdleNotarizer

\* an uncaught error ends the process with a non-zero exit code
Die(kind) ==
    /\ thrown' = kind
    /\ exitCode' = 1
    /\ pc' = "exited"

\* main, up to the for-of loop: parseArgs, then calculateTargets
Start ==
    /\ pc = "start"
    /\ LET config == parseArgs(argv)
           plan == calculateTargets(platform, config, masDevProfile)
       IN /\ wrapperConfig' = [builderArgs |-> config.builderArgs,
                               doPackage |-> config.doPackage,
                               doSign |-> config.doSign,
                               mode |-> config.mode,
                               targets |-> plan.targets]
          /\ IF plan.threw
             THEN Die("UnsupportedPlatform")
             ELSE /\ pc' = "loop"
                  /\ UNCHANGED <<thrown, exitCode>>
    /\ UNCHANGED <<platform, argv, env, masDevProfile, nextPass, invocations, env0>>
    /\ UNCHANGED nvars

\* runBuilder for the next pass, up to and including the call of spawnSync
RunBuilderSpawn ==
    /\ pc = "loop"
    /\ nextPass <= Len(wrapperConfig.targets)
    /\ LET target == wrapperConfig.targets[nextPass]
           childEnv == childEnvironment(wrapperConfig, target, env)
           flag == getPlatformFlag(platform)
       IN IF missingSigningCredentials(wrapperConfig, target, childEnv)
          THEN /\ Die("MissingSigningCredentials")
               /\ UNCHANGED invocations
          ELSE IF flag.threw
          THEN /\ Die("UnsupportedPlatform")
               /\ UNCHANGED invocations
          ELSE /\ invocations' = Append(invocations,
                                   [pass |-> nextPass,
                                    target |-> target,
                                    args |-> allArgs(wrapperConfig, target, flag.value),
                                    env |-> childEnv,
                                    done |-> FALSE,
                                    result |-> Pending])
               /\ pc' = "waiting"
               /\ UNCHANGED <<thrown, exitCode>>
    /\ UNCHANGED <<platform, argv, env, masDevProfile, wrapperConfig, nextPass, env0>>
    /\ UNCHANGED nvars

\* spawnSync returns: the rest of runBuilder, and the loop moves on
ChildTerminates ==
    /\ pc = "waiting"
    /\ \E result \in SpawnResults :
          /\ invocations' = [invocations EXCEPT ![Len(invocations)] =
                                [@ EXCEPT !.done = TRUE, !.result = result]]
          /\ IF resultError(result) # "none"
             THEN /\ Die(resultError(result))
                  /\ UNCHANGED nextPass
             ELSE /\ pc' = "loop"
                  /\ nextPass' = nextPass + 1
                  /\ UNCHANGED <<thrown, exitCode>>
    /\ UNCHANGED <<platform, argv, env, masDevProfile, wrapperConfig, env0>>
    /\ UNCHANGED nvars

\* the loop of main is over and the process ends normally
Finish ==
    /\ pc = "loop"
    /\ nextPass > Len(wrapperConfig.targets)
    /\ pc' = "exited"
    /\ exitCode' = 0
    /\ UNCHANGED <<platform, argv, env, masDevProfile, wrapperConfig, nextPass,
                   invocations, thrown, env0>>
    /\ UNCHANGED nvars

Next == Start \/ RunBuilderSpawn \/ ChildTerminates \/ Finish

Spec == Init /\ [][Next]_vars

(* ----------------------------- afterSign.js ---------------------------- *)
appId == "edu.mit.scratch.scratch-desktop"

appleIdKeychainItem(appleId) == "Application Loader: " \o appleId

\* notarizeMacBuild that always submits the keychain reference
notarizeMacBuild_keychainOnly(ctx, processEnv) ==
    IF ~Truthy(Get(processEnv, "AC_USERNAME"))
    THEN [calls |-> <<>>, warned |-> TRUE]
    ELSE [calls |-> <<[appBundleId |-> appId,
                       appPath |-> ctx.appOutDir \o "/" \o ctx.productFilename \o ".app",
                       appleId |-> processEnv["AC_USERNAME"],
                       appleIdPassword |->
                           "@keychain:" \o appleIdKeychainItem(processEnv["AC_USERNAME"])]>>,
          warned |-> FALSE]

\* notarizeMacBuild up to its await: the calls of notarize() it makes (none or one)
\* and whether it logged the warning instead
notarizeMacBuild(ctx, processEnv) ==
    IF ~Truthy(Get(processEnv, "AC_USERNAME"))
    THEN [calls |-> <<>>, warned |-> TRUE]
    ELSE LET appleId == processEnv["AC_USERNAME"]
         IN [calls |-> <<[appBundleId |-> appId,
                          appPath |-> ctx.appOutDir \o "/" \o ctx.productFilename \o ".app",
                          appleId |-> appleId,
                          appleIdPassword |->
                              IF Truthy(Get(processEnv, "AC_PASSWORD"))
                              THEN processEnv["AC_PASSWORD"]
                              ELSE "@keychain:" \o appleIdKeychainItem(appleId)]>>,
             warned |-> FALSE]

\* afterSign whose 'mas' case falls through into the 'dmg' case
afterSign_masFallsThrough(ctx, processEnv) ==
    IF Len(ctx.targets) = 0
    THEN [threw |-> TRUE, calls |-> <<>>, warned |-> FALSE]
    ELSE IF ctx.targets[1].name \in {"mas-dev", "mas", "dmg"}
    THEN [threw |-> FALSE,
          calls |-> notarizeMacBuild(ctx, processEnv).calls,
          warned |-> notarizeMacBuild(ctx, processEnv).warned]
    ELSE [threw |-> FALSE, calls |-> <<>>, warned |-> FALSE]

\* afterSign up to its first pending await; threw: context.targets[0] is undefined
afterSign(ctx, processEnv) ==
    IF Len(ctx.targets) = 0
    THEN [threw |-> TRUE, calls |-> <<>>, warned |-> FALSE]
    ELSE LET firstTargetName == ctx.targets[1].name
         IN CASE firstTargetName \in {"mas-dev", "mas"} ->
                   [threw |-> FALSE, calls |-> <<>>, warned |-> FALSE]
              [] firstTargetName = "dmg" ->
                   [threw |-> FALSE,
                    calls |-> notarizeMacBuild(ctx, processEnv).calls,
                    warned |-> notarizeMacBuild(ctx, processEnv).warned]
              [] OTHER -> [threw |-> FALSE, calls |-> <<>>, warned |-> FALSE]

TargetNames == {"dmg", "mas", "mas-dev", "zip"}

Contexts ==
    {[targets |-> ts, appOutDir |-> "dist/mac", productFilename |-> "Scratch 3"] :
        ts \in UNION {[1..n -> {[name |-> t] : t \in TargetNames}] : n \in 0..MaxTargets}}

NotarizerEnvs ==
    {MkEnv([PATH |-> "/usr/bin", AC_USERNAME |-> u, AC_PASSWORD |-> pw]) :
        u \in {UNDEF, "", "dev@apple.id"}, pw \in {UNDEF, "", "app-pw"}}

InitNotarizer ==
    /\ n_env \in NotarizerEnvs
    /\ context \in Contexts
    /\ n_pc = "idle"
    /\ remoteCalls = <<>>
    /\ settled = 0
    /\ warnings = 0

\* a wrapper that is not running, for the runs of the hook alone
IdleWrapper ==
    /\ platform = "darwin"
    /\ argv = <<>>
    /\ env = [PATH |-> "/usr/bin"]
    /\ masDevProfile = FALSE
    /\ pc = "exited"
    /\ wrapperConfig = [builderArgs |-> <<>>, doPackage |-> UNDEF, doSign |-> UNDEF,
                        mode |-> UNDEF, targets |-> <<>>]
    /\ nextPass = 1
    /\ invocations = <<>>
    /\ thrown = "none"
    /\ exitCode = NoExit
    /\ env0 = env

\* electron-builder calls the hook: afterSign runs until it returns, throws or awaits
AfterSignCalled ==
    /\ n_pc = "idle"
    /\ LET r == afterSign(context, n_env)
       IN /\ remoteCalls' = remoteCalls \o r.calls
          /\ warnings' = warnings + (IF r.warned THEN 1 ELSE 0)
          /\ n_pc' = IF r.threw THEN "rejected"
                     ELSE IF r.calls # <<>> THEN "awaiting"
                     ELSE "returned"
    /\ UNCHANGED <<n_env, context, settled>>
    /\ UNCHANGED wvars

\* the promise of notarize() settles and the two awaits resume
NotarizeSettles ==
    /\ n_pc = "awaiting"
    /\ settled' = settled + 1
    /\ \E ok \in BOOLEAN : n_pc' = IF ok THEN "returned" ELSE "rejected"
    /\ UNCHANGED <<n_env, context, remoteCalls, warnings>>
    /\ UNCHANGED wvars

InitN == IdleWrapper /\ InitNotarizer

NextN == AfterSignCalled \/ NotarizeSettles

SpecN == InitN /\ [][NextN]_vars

(* ------------------------------ properties ----------------------------- *)
\* a variable of an environment is set: present and not empty, which is how
\* the `||` and `!` of the code read it
IsSet(e, k) == k \in DOMAIN e /\ e[k] # ""

\* the child of an invocation ended with exit status zero: it started, no signal
EndedWithZero(inv) ==
    /\ inv.done
    /\ inv.result.error = UNDEF
    /\ inv.result.signal = UNDEF
    /\ inv.result.status = 0

\* the child of an invocation ended in one of the failures of the runner
EndedBadly(inv) == inv.done /\ ~EndedWithZero(inv)

\* C1: the process exits non-zero on any planner failure, any runner failure
\* (missing signing credentials, child not started, child killed by a signal,
\* child with a non-zero status) and any unsupported platform; it exits zero
\* only if every planned pass was run and its child ended with status zero.
ExitCodeReflectsOutcome ==
    /\ pc # "exited" => exitCode = NoExit
    /\ pc = "exited" =>
         /\ exitCode # NoExit
         /\ thrown # "none" => exitCode # 0
         /\ platform \notin {"win32", "darwin"} => exitCode # 0
         /\ (\E i \in DOMAIN invocations : EndedBadly(invocations[i])) => exitCode # 0
         /\ exitCode = 0 =>
              /\ Len(invocations) = Len(wrapperConfig.targets)
              /\ \A i \in DOMAIN invocations :
                    /\ invocations[i].target = wrapperConfig.targets[i]
                    /\ EndedWithZero(invocations[i])

\* C1 witness: a run of three passes, all with status zero, that exited with zero
ExitZeroAfterThreePasses ==
    /\ pc = "exited"
    /\ exitCode = 0
    /\ Len(invocations) = 3

\* C2: passes run one after another in the planner's order: at most one child
\* exists at a time, pass k is started only after every earlier pass ended with
\* status zero, and after a failed pass nothing more is started (no retry).
PassesRunInOrder ==
    /\ Cardinality({i \in DOMAIN invocations : ~invocations[i].done}) <= 1
    /\ Len(invocations) <= Len(wrapperConfig.targets)
    /\ \A i \in DOMAIN invocations :
          /\ invocations[i].pass = i
          /\ invocations[i].target = wrapperConfig.targets[i]
          /\ \A j \in 1..(i - 1) : EndedWithZero(invocations[j])
          /\ EndedBadly(invocations[i]) => (i = Len(invocations) /\ pc = "exited")

\* C2 witness: the third pass is running after two passes that ended with zero
ThirdPassRunning ==
    /\ Len(invocations) = 3
    /\ ~invocations[3].done
    /\ pc = "waiting"

\* C3: the child of an appx pass, or of any pass when doSign is not true, gets
\* the process environment without exactly the four signing keys and with every
\* other key unchanged; any other child gets the process environment as it is;
\* the process environment itself never changes.
ChildEnvironmentPolicy ==
    /\ env = env0
    /\ \A i \in DOMAIN invocations :
          LET inv == invocations[i]
              appx == inv.target.name = "appx" \/ StartsWith(inv.target.name, "appx:")
          IN IF appx \/ wrapperConfig.doSign # JsTrue
             THEN /\ DOMAIN inv.env = (DOMAIN env0) \ CSCKeys
                  /\ \A k \in DOMAIN inv.env : inv.env[k] = env0[k]
             ELSE inv.env = env0

\* C3 witness: with all four keys set and mode dist, the appx child ran without
\* them and the nsis child that followed has them all
AppxStrippedThenNsisSigned ==
    /\ CSCKeys \subseteq DOMAIN env0
    /\ Len(invocations) = 2
    /\ wrapperConfig.doSign = JsTrue
    /\ invocations[1].target.name = "appx:x64 appx:ia32 appx:arm64"
    /\ (DOMAIN invocations[1].env) \cap CSCKeys = {}
    /\ invocations[2].target.name = "nsis:ia32"
    /\ CSCKeys \subseteq DOMAIN invocations[2].env

\* C4: in mode dist, when neither CSC_LINK nor WIN_CSC_LINK is set, no child
\* is ever spawned for an nsis pass: once the passes before it are through,
\* the run ends with the missing-signing-credentials error.
NsisRequiresCredentials ==
    (/\ pc # "start"
     /\ wrapperConfig.mode = "dist"
     /\ ~IsSet(env0, "CSC_LINK")
     /\ ~IsSet(env0, "WIN_CSC_LINK"))
    => /\ \A i \in DOMAIN invocations :
             ~(invocations[i].target.name = "nsis"
               \/ StartsWith(invocations[i].target.name, "nsis:"))
       /\ (/\ platform = "win32"
           /\ pc = "exited"
           /\ Len(invocations) >= 1
           /\ EndedWithZero(invocations[1]))
          => (thrown = "MissingSigningCredentials" /\ exitCode # 0
              /\ Len(invocations) = 1)

\* C4 witness: the appx pass went through and the nsis pass was refused
NsisRefused ==
    /\ wrapperConfig.mode = "dist"
    /\ thrown = "MissingSigningCredentials"
    /\ Len(invocations) = 1
    /\ EndedWithZero(invocations[1])
    /\ "CSC_LINK" \notin DOMAIN env0
    /\ "WIN_CSC_LINK" \notin DOMAIN env0

\* C5: the plan is exactly: on Windows the appx pass (x64, ia32, arm64) and then
\* the nsis pass (ia32), whatever doSign is; on macOS mas-dev (iff the profile
\* file exists), then mas (iff doSign is true), then dmg (always, last), each
\* for x64 and arm64; every pass carries the host platform.
PlannedPasses ==
    (pc # "start" /\ platform \in {"win32", "darwin"}) =>
        wrapperConfig.targets =
            IF platform = "win32"
            THEN <<[platform |-> "win32", name |-> "appx:x64 appx:ia32 appx:arm64"],
                   [platform |-> "win32", name |-> "nsis:ia32"]>>
            ELSE (IF masDevProfile
                  THEN <<[platform |-> "darwin", name |-> "mas-dev:x64 mas-dev:arm64"]>>
                  ELSE <<>>)
                 \o (IF wrapperConfig.doSign = JsTrue
                     THEN <<[platform |-> "darwin", name |-> "mas:x64 mas:arm64"]>>
                     ELSE <<>>)
                 \o <<[platform |-> "darwin", name |-> "dmg:x64 dmg:arm64"]>>

\* C5 witness: the macOS plan with all three passes
ThreeMacPassesPlanned ==
    /\ pc = "loop"
    /\ platform = "darwin"
    /\ masDevProfile
    /\ Len(wrapperConfig.targets) = 3

\* C6: on win32 and darwin the planner returns a non-empty list; on any other
\* platform (linux too, although the platform flag of linux exists, "--linux")
\* it fails with the unsupported-platform error and no child is ever spawned.
PlannerSupport ==
    /\ getPlatformFlag("linux") = [threw |-> FALSE, value |-> "--linux"]
    /\ pc # "start" =>
         IF platform \in {"win32", "darwin"}
         THEN thrown # "UnsupportedPlatform" /\ Len(wrapperConfig.targets) >= 1
         ELSE /\ thrown = "UnsupportedPlatform"
              /\ pc = "exited"
              /\ exitCode # 0
              /\ invocations = <<>>

\* C6 witness: the run on linux ended in the planner
LinuxRefused ==
    /\ platform = "linux"
    /\ pc = "exited"
    /\ thrown = "UnsupportedPlatform"

\* the arguments of an invocation that come before the passthrough arguments
OwnPart(inv) == SubSeq(inv.args, 1, Len(inv.args) - Len(wrapperConfig.builderArgs))

\* the arguments of an invocation from the passthrough arguments on
PassthroughPart(inv) ==
    SubSeq(inv.args, Len(inv.args) - Len(wrapperConfig.builderArgs) + 1, Len(inv.args))

\* C7 as stated: in the argument list of every macOS pass exactly one of the two
\* flags is present, the afterSign flag iff doSign is true and the null
\* identity flag otherwise, so that the hook is registered in mode dist only.
ExactlyOneMacSigningFlag ==
    \A i \in DOMAIN invocations :
        invocations[i].target.platform = "darwin" =>
            /\ Includes(invocations[i].args, AfterSignFlag) <=> wrapperConfig.doSign = JsTrue
            /\ Includes(invocations[i].args, NullIdentityFlag) <=> wrapperConfig.doSign # JsTrue
            /\ Includes(invocations[i].args, AfterSignFlag) => wrapperConfig.mode = "dist"

\* C7 amended: among the arguments runBuilder adds itself to a macOS pass,
\* exactly one of the two flags is present, the afterSign flag iff doSign is
\* true (mode dist) and the null identity flag otherwise; the passthrough
\* arguments follow unchanged, and outside mode dist the afterSign flag is in
\* the argument list only when a passthrough argument is that flag.
ExactlyOneOwnMacSigningFlag ==
    \A i \in DOMAIN invocations :
        invocations[i].target.platform = "darwin" =>
            /\ PassthroughPart(invocations[i]) = wrapperConfig.builderArgs
            /\ Includes(OwnPart(invocations[i]), AfterSignFlag) <=> wrapperConfig.doSign = JsTrue
            /\ Includes(OwnPart(invocations[i]), NullIdentityFlag) <=> wrapperConfig.doSign # JsTrue
            /\ wrapperConfig.doSign = JsTrue <=> wrapperConfig.mode = "dist"
            /\ (Includes(invocations[i].args, AfterSignFlag) /\ wrapperConfig.mode # "dist")
               => Includes(wrapperConfig.builderArgs, AfterSignFlag)

\* C7 witness: a macOS pass of mode dev whose passthrough arguments hold the
\* afterSign flag, next to the null identity flag that runBuilder added
DevPassWithPassthroughHook ==
    /\ Len(invocations) >= 1
    /\ invocations[1].target.platform = "darwin"
    /\ wrapperConfig.mode = "dev"
    /\ Includes(OwnPart(invocations[1]), NullIdentityFlag)
    /\ Includes(wrapperConfig.builderArgs, AfterSignFlag)

\* the configuration of the run with mode dir and the same passthrough arguments
DirTwin == parseArgs(Append(wrapperConfig.builderArgs, "--mode=dir"))

\* what an unrecognised mode shares with mode dir: plan, arguments, environment
ActsAsDir ==
    /\ DirTwin.builderArgs = wrapperConfig.builderArgs
    /\ DirTwin.mode = "dir"
    /\ wrapperConfig.doSign = UNDEF
    /\ wrapperConfig.doPackage = UNDEF
    /\ calculateTargets(platform, DirTwin, masDevProfile).threw
         = (thrown = "UnsupportedPlatform")
    /\ calculateTargets(platform, DirTwin, masDevProfile).targets = wrapperConfig.targets
    /\ \A i \in DOMAIN wrapperConfig.targets :
          ~StartsWith(wrapperConfig.targets[i].name, "mas:")
    /\ \A i \in DOMAIN invocations :
          LET inv == invocations[i]
              flag == IF platform = "darwin" THEN "--macos" ELSE "--windows"
          IN /\ inv.args = allArgs(DirTwin, inv.target, flag)
             /\ inv.env = childEnvironment(DirTwin, inv.target, env0)
             /\ inv.args =
                  <<flag, inv.target.name>>
                  \o (IF platform = "darwin"
                      THEN <<"--c.mac.type=development">>
                           \o (IF StartsWith(inv.target.name, "mas-dev:")
                               THEN <<"--c.mac.provisioningProfile=mas-dev.provisionprofile">>
                               ELSE <<>>)
                           \o <<NullIdentityFlag>>
                      ELSE <<>>)
                  \o <<"--dir", "--c.compression=store">>
                  \o wrapperConfig.builderArgs
             /\ (DOMAIN inv.env) \cap CSCKeys = {}
             /\ \A k \in (DOMAIN env0) \ CSCKeys : k \in DOMAIN inv.env /\ inv.env[k] = env0[k]

\* C10 as stated: with a mode other than dev, dir and dist the run makes the
\* packager invocations of mode dir (same plan, same arguments, same stripped
\* environment); it never keeps signing credentials, never plans a mas pass
\* and never registers the afterSign hook.
UnknownModeActsAsDir ==
    (pc # "start" /\ wrapperConfig.mode \notin {"dev", "dir", "dist"}) =>
        /\ ActsAsDir
        /\ \A i \in DOMAIN invocations : ~Includes(invocations[i].args, AfterSignFlag)

\* C10 amended: the same, except that runBuilder itself never adds the
\* afterSign flag: the flag is in the argument list only when a passthrough
\* argument is that flag (as it then is in mode dir too).
UnknownModeActsAsDirOwnHook ==
    (pc # "start" /\ wrapperConfig.mode \notin {"dev", "dir", "dist"}) =>
        /\ ActsAsDir
        /\ \A i \in DOMAIN invocations :
              /\ ~Includes(OwnPart(invocations[i]), AfterSignFlag)
              /\ Includes(invocations[i].args, AfterSignFlag)
                 => Includes(wrapperConfig.builderArgs, AfterSignFlag)

\* C10 witness: a macOS pass of mode zip, run with signing keys in the process
\* environment and a passthrough argument
UnknownModeMacPass ==
    /\ wrapperConfig.mode = "zip"
    /\ platform = "darwin"
    /\ CSCKeys \subseteq DOMAIN env0
    /\ Len(invocations) >= 1
    /\ wrapperConfig.builderArgs = <<"--x64">>

\* C8: notarize() is called iff the first target of the context is "dmg" and
\* AC_USERNAME is set, and afterSign returns only when that call has completed;
\* with any other first target there is no call, no warning and no error; with
\* "dmg" and no AC_USERNAME there is one warning, no call and no error.
NotarizeOnlyDmgWithAppleId ==
    (n_pc # "idle" /\ Len(context.targets) >= 1) =>
        LET firstIsDmg == context.targets[1].name = "dmg"
        IN /\ Len(remoteCalls) <= 1
           /\ Len(remoteCalls) = 1 <=> (firstIsDmg /\ IsSet(n_env, "AC_USERNAME"))
           /\ n_pc = "returned" => settled = Len(remoteCalls)
           /\ n_pc = "awaiting" => settled < Len(remoteCalls)
           /\ ~firstIsDmg => (n_pc = "returned" /\ warnings = 0)
           /\ (firstIsDmg /\ ~IsSet(n_env, "AC_USERNAME")) =>
                 (n_pc = "returned" /\ warnings = 1)

\* C8 witness: afterSign returned after the one call of notarize() completed
ReturnedAfterNotarization ==
    /\ n_pc = "returned"
    /\ Len(remoteCalls) = 1
    /\ settled = 1

\* C9: a call of notarize() submits AC_PASSWORD when it is set, and else the
\* keychain reference "@keychain:" of the item "Application Loader: <AC_USERNAME>".
NotarizePassword ==
    \A i \in DOMAIN remoteCalls :
        /\ remoteCalls[i].appleId = n_env["AC_USERNAME"]
        /\ remoteCalls[i].appleIdPassword =
              IF IsSet(n_env, "AC_PASSWORD")
              THEN n_env["AC_PASSWORD"]
              ELSE "@keychain:Application Loader: " \o n_env["AC_USERNAME"]

\* C9 witness: a call made with AC_USERNAME set and no AC_PASSWORD
NotarizedWithKeychainItem ==
    /\ Len(remoteCalls) = 1
    /\ "AC_PASSWORD" \notin DOMAIN n_env
    /\ remoteCalls[1].appleIdPassword = "@keychain:Application Loader: dev@apple.id"
====
